---- MODULE Spec2Model ----
(***************************************************************************)
(* A model of the Bungee granular stretcher: the call-order guard          *)
(* (Instrumentation::Call), the ring of four grains (Grains), the per      *)
(* grain timing (Grain::specify), the resampler set-up                     *)
(* (Resample::Operations::setup) and the three operations of               *)
(* Internal::Stretcher.                                                    *)
(*                                                                         *)
(* Numbers of type double are modelled as exact fractions <<n, d>> in      *)
(* lowest terms with d > 0.  d = 0 holds the non-finite values:            *)
(* <<0, 0>> is NaN, <<1, 0>> is +infinity and <<-1, 0>> is -infinity.      *)
(***************************************************************************)
EXTENDS Integers, Sequences, FiniteSets, TLC

\* ------------------------------------------------------------------------
\* double arithmetic

Abs(i) == IF i < 0 THEN -i ELSE i

Sign(i) == IF i > 0 THEN 1 ELSE IF i < 0 THEN -1 ELSE 0

RECURSIVE GCD(_, _)
GCD(a, b) == IF b = 0 THEN a ELSE GCD(b, a % b)

\* The double n/d, d >= 0.
Frac(n, d) ==
    IF d = 0 THEN <<Sign(n), 0>>
    ELSE LET g == GCD(Abs(n), d) IN <<n \div g, d \div g>>

NaN == <<0, 0>>

Num(i) == <<i, 1>>

isnan(x) == x = NaN

isfinite(x) == x[2] # 0

Neg(x) == <<-x[1], x[2]>>

Add(x, y) ==
    IF x[2] = 0 /\ y[2] = 0
    THEN (IF x[1] = y[1] THEN x ELSE NaN)
    ELSE Frac(x[1] * y[2] + y[1] * x[2], x[2] * y[2])

Sub(x, y) == Add(x, Neg(y))

Mul(x, y) == Frac(x[1] * y[1], x[2] * y[2])

Recip(x) ==
    IF x[1] > 0 THEN <<x[2], x[1]>>
    ELSE IF x[1] < 0 THEN <<-x[2], -x[1]>>
    ELSE IF x[2] = 0 THEN NaN ELSE <<1, 0>>

Div(x, y) == Mul(x, Recip(y))

\* x < y; false when either is NaN
Less(x, y) ==
    /\ ~isnan(x)
    /\ ~isnan(y)
    /\ IF x[2] = 0 /\ y[2] = 0 THEN x[1] < y[1] ELSE x[1] * y[2] < y[1] * x[2]

fabs(x) == <<Abs(x[1]), x[2]>>

\* std::round of a finite double, as an integer: halves round away from zero
RoundInt(x) == Sign(x[1]) * ((2 * Abs(x[1]) + x[2]) \div (2 * x[2]))

\* std::round as a double: NaN and the infinities are kept
round(x) == IF isfinite(x) THEN Num(RoundInt(x)) ELSE x

\* std::ceil of a finite double, as an integer
CeilInt(x) == -((-x[1]) \div x[2])

\* int(x) of a finite double: truncation towards zero
TruncInt(x) == Sign(x[1]) * (Abs(x[1]) \div x[2])

Pow2(k) == IF k <= 0 THEN 1 ELSE 2 ^ k

\* F applied to the value v: a local variable v of the code that F's body reads
With(v, F(_)) == F(v)

\* ------------------------------------------------------------------------
\* Resample::Operations

\* enum ResampleMode, and a value outside the enumeration
ResampleModes == {"autoInOut", "autoIn", "autoOut", "forceIn", "forceOut"}

InvalidResampleMode == "invalid"

\* struct Operation as constructed: function{} (null), ratio{1.}
Operation == [function |-> FALSE, ratio |-> Num(1)]

\* setupFunctions with the test for a unit ratio ahead of the forced modes
setupFunctionsUnitFirst(resampleRatio, resampleMode) ==
    IF resampleRatio = Num(1) THEN [input |-> FALSE, output |-> FALSE, assert |-> 0]
    ELSE IF resampleMode = "forceOut" THEN [input |-> FALSE, output |-> TRUE, assert |-> 0]
    ELSE IF resampleMode \in {"forceIn", "autoIn"}
         THEN [input |-> TRUE, output |-> FALSE, assert |-> 0]
    ELSE IF resampleMode = "autoOut" THEN [input |-> FALSE, output |-> TRUE, assert |-> 0]
    ELSE IF resampleMode = "autoInOut" /\ Less(Num(1), resampleRatio)
         THEN [input |-> TRUE, output |-> FALSE, assert |-> 0]
    ELSE IF resampleMode = "autoInOut" /\ Less(resampleRatio, Num(1))
         THEN [input |-> FALSE, output |-> TRUE, assert |-> 0]
    ELSE [input |-> FALSE, output |-> TRUE, assert |-> 1]

\* setupFunctions with the two sides of autoInOut exchanged
setupFunctionsExchanged(resampleRatio, resampleMode) ==
    IF resampleMode = "forceOut" THEN [input |-> FALSE, output |-> TRUE, assert |-> 0]
    ELSE IF resampleMode = "forceIn" THEN [input |-> TRUE, output |-> FALSE, assert |-> 0]
    ELSE IF resampleRatio = Num(1) THEN [input |-> FALSE, output |-> FALSE, assert |-> 0]
    ELSE IF resampleMode = "autoIn" THEN [input |-> TRUE, output |-> FALSE, assert |-> 0]
    ELSE IF resampleMode = "autoOut" THEN [input |-> FALSE, output |-> TRUE, assert |-> 0]
    ELSE IF resampleMode = "autoInOut" /\ Less(Num(1), resampleRatio)
         THEN [input |-> FALSE, output |-> TRUE, assert |-> 0]
    ELSE IF resampleMode = "autoInOut" /\ Less(resampleRatio, Num(1))
         THEN [input |-> TRUE, output |-> FALSE, assert |-> 0]
    ELSE [input |-> FALSE, output |-> TRUE, assert |-> 1]

\* Which of the two resample functions Operations::setup leaves non-null.
\* assert is the level of the assertion that failed on the way (0: none).
setupFunctions(resampleRatio, resampleMode) ==
    IF resampleMode = "forceOut" THEN [input |-> FALSE, output |-> TRUE, assert |-> 0]
    ELSE IF resampleMode = "forceIn" THEN [input |-> TRUE, output |-> FALSE, assert |-> 0]
    ELSE IF resampleRatio = Num(1) THEN [input |-> FALSE, output |-> FALSE, assert |-> 0]
    ELSE IF resampleMode = "autoIn" THEN [input |-> TRUE, output |-> FALSE, assert |-> 0]
    ELSE IF resampleMode = "autoOut" THEN [input |-> FALSE, output |-> TRUE, assert |-> 0]
    ELSE IF resampleMode = "autoInOut" /\ Less(Num(1), resampleRatio)
         THEN [input |-> TRUE, output |-> FALSE, assert |-> 0]
    ELSE IF resampleMode = "autoInOut" /\ Less(resampleRatio, Num(1))
         THEN [input |-> FALSE, output |-> TRUE, assert |-> 0]
    ELSE [input |-> FALSE, output |-> TRUE, assert |-> 1]

\* setup that leaves the ratio of a side without a function as computed
setupRatiosKept(sampleRates, pitch, resampleMode) ==
    With(Div(Mul(pitch, Num(sampleRates.input)), Num(sampleRates.output)),
         LAMBDA resampleRatio :
    With(setupFunctions(resampleRatio, resampleMode), LAMBDA f :
    With(Div(Num(sampleRates.input), Num(sampleRates.output)), LAMBDA rates :
        [input  |-> [function |-> f.input, ratio |-> Recip(resampleRatio)],
         output |-> [function |-> f.output, ratio |-> resampleRatio],
         result |-> IF f.output THEN Div(rates, resampleRatio) ELSE rates,
         assert |-> f.assert])))

\* Operations::setup: the two operations, the value returned (result) and the
\* level of a failed assertion.
setup(sampleRates, pitch, resampleMode) ==
    With(Div(Mul(pitch, Num(sampleRates.input)), Num(sampleRates.output)),
         LAMBDA resampleRatio :
    With(setupFunctions(resampleRatio, resampleMode), LAMBDA f :
    With(Div(Num(sampleRates.input), Num(sampleRates.output)), LAMBDA rates :
        [input  |-> [function |-> f.input,
                     ratio |-> IF f.input THEN Recip(resampleRatio) ELSE Num(1)],
         output |-> [function |-> f.output,
                     ratio |-> IF f.output THEN resampleRatio ELSE Num(1)],
         result |-> IF f.output THEN Div(rates, resampleRatio) ELSE rates,
         assert |-> f.assert])))

\* ------------------------------------------------------------------------
\* Grain

\* The contents of a buffer nothing has been written to.
Zero == <<0, 0, 0>>

InputChunk(begin, end) == [begin |-> begin, end |-> end]

\* Grain::Grain for the grain u, whose request.reset and request.resampleMode
\* are left uninitialised: reset is the value the memory happens to hold, the
\* mode is kept as a value never equal to a mode of the enumeration.
Grain(u, log2SynthesisHop, reset) ==
    [log2TransformLength |-> log2SynthesisHop + 3,
     request |-> [position |-> NaN, speed |-> NaN, pitch |-> Num(1),
                  reset |-> reset, resampleMode |-> "indeterminate"],
     requestHop |-> Num(0),
     continuous |-> FALSE,
     passthrough |-> 0,
     validBinCount |-> 0,
     muteFrameCountHead |-> 0,
     muteFrameCountTail |-> 0,
     resampleOperations |-> [input |-> Operation, output |-> Operation],
     inputChunk |-> InputChunk(0, 0),
     analysis |-> [positionError |-> Num(0), hopIdeal |-> Num(0),
                   speed |-> Num(0), hop |-> 0],
     transformed |-> [data |-> Zero, rotated |-> FALSE],
     phase |-> [buf |-> u, data |-> Zero],
     energy |-> [buf |-> u, data |-> Zero],
     rotation |-> [buf |-> u, data |-> Zero],
     partials |-> [buf |-> u, data |-> Zero],
     inputResampled |-> [frameCount |-> 0]]

\* valid that takes every grain for a valid one
validAlways(grain) == TRUE

\* Grain::valid
valid(grain) == ~isnan(grain.request.position)

reverse(grain) == grain.analysis.hop < 0

\* requestHop that takes the hop of the speed whenever the speed is a number
specifyRequestHopOfSpeed(request, previous, unitHop) ==
    IF isnan(request.speed)
    THEN Sub(request.position, previous.request.position)
    ELSE Mul(request.speed, unitHop)

\* Grain::specify, lines 40-46
specifyRequestHop(request, previous, unitHop) ==
    With(Sub(request.position, previous.request.position), LAMBDA requestHop :
        IF isnan(requestHop) \/ request.reset
        THEN Mul(request.speed, unitHop)
        ELSE requestHop)

\* Grain::specify, line 42: the condition under which the hop mismatch is logged
specifyMismatch(request, previous, unitHop) ==
    With(Sub(request.position, previous.request.position), LAMBDA requestHop :
        /\ ~request.reset
        /\ ~isnan(request.speed)
        /\ ~isnan(requestHop)
        /\ Less(Num(1), fabs(Sub(Mul(request.speed, unitHop), requestHop))))

\* continuous that does not look at the previous grain
specifyContinuousUnchecked(request, previous) == ~request.reset

\* Grain::specify, line 50
specifyContinuous(request, previous) ==
    ~request.reset /\ ~isnan(previous.request.position)

\* the analysis record whose hop rounds hopIdeal alone, also when continuous
specifyAnalysisUncarried(request, previous, hopIdeal, log2SynthesisHop) ==
    With(~request.reset /\ ~isnan(previous.request.position), LAMBDA continuous :
        [positionError |-> IF continuous
                           THEN Add(Sub(previous.analysis.positionError, hopIdeal),
                                    Num(RoundInt(hopIdeal)))
                           ELSE Sub(round(request.position), request.position),
         hopIdeal |-> hopIdeal,
         speed |-> Div(hopIdeal, Num(Pow2(log2SynthesisHop))),
         hop |-> RoundInt(hopIdeal)])

\* Grain::specify, lines 48-63: the analysis record
specifyAnalysis(request, previous, hopIdeal, log2SynthesisHop) ==
    With(specifyContinuous(request, previous), LAMBDA continuous :
    With(Sub(previous.analysis.positionError, hopIdeal), LAMBDA carried :
    With(IF continuous THEN RoundInt(Neg(carried)) ELSE RoundInt(hopIdeal), LAMBDA hop :
        [positionError |-> IF continuous
                           THEN Add(carried, Num(hop))
                           ELSE Sub(round(request.position), request.position),
         hopIdeal |-> hopIdeal,
         speed |-> Div(hopIdeal, Num(Pow2(log2SynthesisHop))),
         hop |-> hop])))

\* passthrough armed only after a grain that was armed
specifyPassthroughAfterArmed(speed, continuous, previous) ==
    IF fabs(speed) = Num(1) /\ previous.passthrough # 0 THEN TruncInt(speed) ELSE 0

\* passthrough armed by the speed alone
specifyPassthroughOfSpeed(speed, continuous, previous) ==
    IF fabs(speed) = Num(1) THEN TruncInt(speed) ELSE 0

\* Grain::specify, lines 65-69
specifyPassthrough(speed, continuous, previous) ==
    With(IF fabs(speed) = Num(1) THEN TruncInt(speed) ELSE 0, LAMBDA passthrough :
        IF continuous /\ passthrough # previous.passthrough THEN 0 ELSE passthrough)

\* halfInputFrameCount without the frame added after rounding
halfInputFrameCountRounded(frameCount, ratio) ==
    IF ratio # Num(1)
    THEN RoundInt(Div(Num(frameCount \div 2), ratio))
    ELSE frameCount \div 2

\* Grain::specify, lines 75-77
halfInputFrameCount(frameCount, ratio) ==
    IF ratio # Num(1)
    THEN RoundInt(Div(Num(frameCount \div 2), ratio)) + 1
    ELSE frameCount \div 2

\* Grain::specify, lines 79-88: the chunk kept in the grain (centred on 0 for
\* an invalid request) 
specifyInputChunk(request, half, bufferStartPosition) ==
    IF isnan(request.position)
    THEN InputChunk(-half, half)
    ELSE With(RoundInt(Sub(request.position, bufferStartPosition)), LAMBDA offset :
            InputChunk(-half + offset, half + offset))

\* specifyReturn without the early return for an invalid request
specifyReturnChunk(request, chunk) == chunk

\* Grain::specify, lines 82-88: the chunk returned
specifyReturn(request, chunk) ==
    IF isnan(request.position) THEN InputChunk(0, 0) ELSE chunk

\* Grain::specify: the grain afterwards (grain), the chunk returned (chunk),
\* whether the hop mismatch is logged (mismatch), the level of the first
\* assertion that fails (assert, 0: none) and the grain as that assertion
\* finds it (partial).
specify(grain, r, previous, sampleRates, log2SynthesisHop, bufferStartPosition) ==
    With(setup(sampleRates, r.pitch, r.resampleMode), LAMBDA ops :
    With(Mul(Num(Pow2(log2SynthesisHop)), ops.result), LAMBDA unitHop :
    With(specifyRequestHop(r, previous, unitHop), LAMBDA requestHop :
    With(specifyAnalysis(r, previous, Mul(requestHop, ops.input.ratio), log2SynthesisHop),
         LAMBDA analysis :
    With(specifyContinuous(r, previous), LAMBDA continuous :
    With(Pow2(log2SynthesisHop + 3), LAMBDA frameCount :
    With(specifyInputChunk(r, halfInputFrameCount(frameCount, ops.input.ratio),
                           bufferStartPosition), LAMBDA chunk :
        [grain |-> [grain EXCEPT
                    !.request = r,
                    !.resampleOperations = [input |-> ops.input, output |-> ops.output],
                    !.requestHop = requestHop,
                    !.analysis = analysis,
                    !.continuous = continuous,
                    !.passthrough = specifyPassthrough(analysis.speed, continuous, previous),
                    !.log2TransformLength = log2SynthesisHop + 3,
                    !.inputResampled = [frameCount |-> frameCount],
                    !.inputChunk = chunk],
         chunk |-> specifyReturn(r, chunk),
         mismatch |-> specifyMismatch(r, previous, unitHop),
         assert |-> IF ~Less(Num(0), r.pitch) THEN 1 ELSE ops.assert,
         partial |-> [grain EXCEPT !.request = r]])))))))

\* ------------------------------------------------------------------------
\* Grains: vector holds the four owning pointers (index 1 is C++ index 0),
\* heap the Grain each of them owns.

GrainIds == 1 .. 4

\* Grains::operator[]
At(s, i) == s.heap[s.vector[i + 1]]

\* flushed with the test of a grain inverted
flushedInverted(s) == \A i \in 0 .. 3 : ~isnan(At(s, i).request.position)

\* flushed that stops before the oldest grain
flushedThree(s) == \A i \in 0 .. 2 : isnan(At(s, i).request.position)

\* Grains::flushed
flushed(s) == \A i \in 0 .. 3 : isnan(At(s, i).request.position)

\* rotate that moves the owners one place towards the front
rotateOwnersForward(vector) == <<vector[2], vector[3], vector[4], vector[1]>>

\* Grains::rotate, lines 35-38: the owners move one place towards the back
rotateOwners(vector) == <<vector[4], vector[1], vector[2], vector[3]>>

\* rotate that leaves the heavy buffers with their owners
swapBuffersNever(heap, a, b) == heap

\* Grains::rotate, lines 41-44: the heavy buffers of indices 0 and 2 change places
swapBuffers(heap, a, b) ==
    [heap EXCEPT
        ![a].phase = heap[b].phase, ![b].phase = heap[a].phase,
        ![a].energy = heap[b].energy, ![b].energy = heap[a].energy,
        ![a].rotation = heap[b].rotation, ![b].rotation = heap[a].rotation,
        ![a].partials = heap[b].partials, ![b].partials = heap[a].partials]

\* Grains::rotate
rotate(s) ==
    With(rotateOwners(s.vector), LAMBDA vector :
        [s EXCEPT !.vector = vector,
                  !.heap = swapBuffers(s.heap, vector[1], vector[3])])

\* ------------------------------------------------------------------------
\* Instrumentation

\* Call that leaves expected at the operation called
CallStale(s, sequence) ==
    [abort |-> sequence # s.expected,
     expected |-> sequence]

\* Call that aborts only where it logs
CallLogged(s, sequence) ==
    [abort |-> s.enabled /\ sequence # s.expected,
     expected |-> (sequence + 1) % 3]

\* Instrumentation::Call::Call: whether the call aborts, and expected afterwards
Call(s, sequence) ==
    [abort |-> sequence # s.expected,
     expected |-> (sequence + 1) % 3]

\* Instrumentation::log prints only when instrumentation is enabled
log(s, message) == IF s.enabled THEN message ELSE "none"

\* ------------------------------------------------------------------------
\* Internal::Stretcher

\* Stretcher::Stretcher: four grains as Grain::Grain leaves them, expecting
\* specifyGrain, instrumentation off. resets[u] is the uninitialised
\* request.reset of grain u.
Stretcher(sampleRates, log2SynthesisHop, resets) ==
    [sampleRates |-> sampleRates,
     log2SynthesisHop |-> log2SynthesisHop,
     enabled |-> FALSE,
     expected |-> 0,
     vector |-> <<1, 2, 3, 4>>,
     heap |-> [u \in GrainIds |-> Grain(u, log2SynthesisHop, resets[u])]]

\* Stretcher::specifyGrain. level is Bungee::Assert::level of the build.
specifyGrain(s, level, request, bufferStartPosition) ==
    With(Call(s, 0), LAMBDA call :
    With(rotate([s EXCEPT !.expected = call.expected]), LAMBDA t :
    With(specify(At(t, 0), request, At(t, 1), t.sampleRates, t.log2SynthesisHop,
                 bufferStartPosition), LAMBDA r :
        IF call.abort
        THEN [s |-> s, aborted |-> TRUE, chunk |-> InputChunk(0, 0),
              logged |-> log(s, "wrong order")]
        ELSE IF r.assert # 0 /\ r.assert <= level
        THEN [s |-> [t EXCEPT !.heap[t.vector[1]] = r.partial], aborted |-> TRUE,
              chunk |-> InputChunk(0, 0), logged |-> "assert"]
        ELSE [s |-> [t EXCEPT !.heap[t.vector[1]] = r.grain], aborted |-> FALSE,
              chunk |-> r.chunk,
              logged |-> IF r.mismatch THEN log(s, "hop mismatch") ELSE "none"])))

\* std::clamp
clamp(v, lo, hi) == IF v < lo THEN lo ELSE IF hi < v THEN hi ELSE v

\* Grain::inputChunkMap, lines 80-92: the mute counts after clamping
inputChunkMap(grain, data, muteFrameCountHead, muteFrameCountTail) ==
    With(grain.inputChunk.end - grain.inputChunk.begin, LAMBDA frameCount :
        [head |-> clamp(IF data = 0 THEN frameCount ELSE muteFrameCountHead, 0, frameCount),
         tail |-> clamp(IF data = 0 THEN 0 ELSE muteFrameCountTail, 0, frameCount),
         rows |-> frameCount])

\* Resample::External::check on External(ref, muteHead, muteTail): the level of
\* the first assertion that fails, 0 when all hold
check(rows, muteHead, muteTail) ==
    LET unmutedBegin == muteHead
        unmutedEnd == rows - muteTail
        activeFrameCount == rows
    IN  IF /\ 0 <= unmutedBegin
           /\ unmutedBegin <= unmutedEnd
           /\ unmutedEnd <= activeFrameCount
           /\ activeFrameCount <= rows
        THEN 0 ELSE 1

\* The input frames that reach the transform: the caller's buffer and the first
\* and last unmuted frame positions, Zero when every frame is muted.
unmuted(grain, data, m) ==
    IF m.head + m.tail >= m.rows
    THEN Zero
    ELSE <<data, grain.inputChunk.begin + m.head, grain.inputChunk.end - m.tail>>

\* Eigen's hasNaN on the unmuted rows of the caller's audio: data is 0 for a
\* null pointer, 1 for audio and 2 for audio with a NaN sample in every frame
hasNaN(data, m) == data = 2 /\ m.head + m.tail < m.rows

\* Stretcher::analyseGrain, lines 66-68
validBinCount(grain) ==
    With(Pow2(grain.log2TransformLength - 1), LAMBDA n :
    With(CeilInt(Div(Num(n), grain.resampleOperations.output.ratio)), LAMBDA c :
        (IF c < n THEN c ELSE n) + 1))

\* Stretcher::analyseGrain, lines 56-83, for a valid grain: the grain after
\* the analysis of the frames x
analyse(grain, x) ==
    [grain EXCEPT
        !.validBinCount = validBinCount(grain),
        !.transformed = [data |-> x, rotated |-> FALSE],
        !.energy.data = x,
        !.phase.data = x,
        !.partials.data = x]

\* Stretcher::analyseGrain. overlap is what a block of negative size in
\* Grain::overlapCheck leads to in the build.
analyseGrain(s, level, data, muteFrameCountHead, muteFrameCountTail, overlap) ==
    With(Call(s, 1), LAMBDA call :
    With(s.vector[1], LAMBDA g :
    With([s.heap[g] EXCEPT
            !.muteFrameCountHead = muteFrameCountHead,
            !.muteFrameCountTail = muteFrameCountTail,
            !.validBinCount = 0], LAMBDA grain :
    With([s EXCEPT !.expected = call.expected, !.heap[g] = grain], LAMBDA t :
    With(inputChunkMap(grain, data, muteFrameCountHead, muteFrameCountTail), LAMBDA m :
    With(IF grain.resampleOperations.input.function
         THEN check(m.rows, m.head, m.tail) ELSE 0, LAMBDA external :
    With(unmuted(grain, data, m), LAMBDA x :
        IF call.abort
        THEN [s |-> s, aborted |-> TRUE, read |-> FALSE, logged |-> log(s, "wrong order")]
        ELSE IF ~valid(grain)
        THEN [s |-> t, aborted |-> FALSE, read |-> FALSE, logged |-> "none"]
        ELSE IF (s.enabled \/ level # 0) /\ m.head + m.tail > m.rows /\ overlap = "abort"
        THEN [s |-> t, aborted |-> TRUE, read |-> FALSE, logged |-> "none"]
        ELSE IF hasNaN(data, m) /\ 2 <= level
        THEN [s |-> t, aborted |-> TRUE, read |-> TRUE, logged |-> "assert"]
        ELSE IF hasNaN(data, m) /\ (s.enabled \/ level # 0)
        THEN [s |-> t, aborted |-> TRUE, read |-> TRUE,
              logged |-> log(s, "NaN detected in input audio")]
        ELSE IF external # 0 /\ external <= level
        THEN [s |-> t, aborted |-> TRUE, read |-> FALSE, logged |-> "assert"]
        ELSE [s |-> [t EXCEPT !.heap[g] = analyse(grain, x)],
              aborted |-> FALSE, read |-> x # Zero, logged |-> "none"])))))))

\* Stretcher::synthesiseGrain, lines 93-112, for a valid grain
synthesise(grain) ==
    [grain EXCEPT !.rotation.data = grain.phase.data,
                  !.transformed.rotated = TRUE]

\* requestPointers one grain too old
requestPointersOlder(vector) == <<vector[4], vector[3]>>

\* Stretcher::synthesiseGrain, lines 124-125: the grains whose request
\* outputChunk.request[begin] and outputChunk.request[end] point to
requestPointers(vector) == <<vector[3], vector[2]>>

\* Stretcher::synthesiseGrain. chunk.request holds the grains whose request
\* the two pointers of the OutputChunk refer to.
synthesiseGrain(s, level) ==
    With(Call(s, 2), LAMBDA call :
    With(s.vector[1], LAMBDA g :
    With(s.heap[g], LAMBDA grain :
    With([s EXCEPT !.expected = call.expected], LAMBDA t :
        IF call.abort
        THEN [s |-> s, aborted |-> TRUE, chunk |-> [request |-> <<0, 0>>],
              logged |-> log(s, "wrong order")]
        ELSE IF /\ valid(grain)
                /\ ~(grain.passthrough = 0 \/ grain.analysis.speed = Num(grain.passthrough))
                /\ 1 <= level
        THEN [s |-> t, aborted |-> TRUE, chunk |-> [request |-> <<0, 0>>],
              logged |-> "assert"]
        ELSE [s |-> IF valid(grain) THEN [t EXCEPT !.heap[g] = synthesise(grain)] ELSE t,
              aborted |-> FALSE,
              chunk |-> [request |-> requestPointers(t.vector)],
              logged |-> "none"]))))

\* ------------------------------------------------------------------------
\* State

\* the transform lengths that maxInputFrameCount() allows for
MaxInputFrameFactor == 4

VARIABLES
    s,            \* the Internal::Stretcher instance
    level,        \* Bungee::Assert::level (BUNGEE_SELF_TEST) of the build
    aborted,      \* std::abort has been called
    call,         \* the sequence number of the operation called last, -1: none
    calls,        \* the operations that have returned, oldest first
    hist,         \* the requests of the specifyGrain calls that have returned
    inputChunk,   \* the InputChunk the last specifyGrain returned
    outputChunk,  \* the caller's OutputChunk
    logged,       \* the message the last call logged
    bufferStart,  \* the bufferStartPosition of the last specifyGrain call
    dataRead,     \* the last call read the caller's audio through data
    other,        \* a second instance and its caller's chunks, <<>>: none
    script,       \* the calls that the callers of both instances make
    stream,       \* a Bungee::Stream on the instance, <<>>: none
    resampler     \* a Resample::Internal and what its last call did, <<>>: none

vars ==
    <<s, level, aborted, call, calls, hist, inputChunk, outputChunk, logged,
      bufferStart, dataRead, other, script, stream, resampler>>

\* what the operations on the instance s leave alone
apart == <<other, script, stream, resampler>>

names == <<"specifyGrain", "analyseGrain", "synthesiseGrain">>

Request(position, speed, pitch, reset, resampleMode) ==
    [position |-> position, speed |-> speed, pitch |-> pitch, reset |-> reset,
     resampleMode |-> resampleMode]

\* A fresh instance in a build of one of the given assertion levels; memory
\* holds one of the given contents where Grain::Grain leaves request.reset
\* uninitialised.
Create(rates, log2SynthesisHops, levels, memory) ==
    /\ \E sampleRates \in rates, log2SynthesisHop \in log2SynthesisHops,
          resets \in memory :
            s = Stretcher(sampleRates, log2SynthesisHop, resets)
    /\ level \in levels
    /\ aborted = FALSE
    /\ call = -1
    /\ calls = <<>>
    /\ hist = <<>>
    /\ inputChunk = InputChunk(0, 0)
    /\ outputChunk = [request |-> <<0, 0>>]
    /\ logged = "none"
    /\ bufferStart = Num(0)
    /\ dataRead = FALSE

\* The caller calls specifyGrain(request, bufferStartPosition); max bounds the
\* number of grains of a run.
SpecifyGrain(request, bufferStartPosition, max) ==
    /\ ~aborted
    /\ Len(hist) < max
    /\ With(specifyGrain(s, level, request, bufferStartPosition), LAMBDA r :
           /\ s' = r.s
           /\ aborted' = r.aborted
           /\ logged' = r.logged
           /\ inputChunk' = IF r.aborted THEN inputChunk ELSE r.chunk
           /\ hist' = IF r.aborted THEN hist ELSE Append(hist, request)
           /\ calls' = IF r.aborted THEN calls ELSE Append(calls, names[1]))
    /\ call' = 0
    /\ bufferStart' = bufferStartPosition
    /\ dataRead' = FALSE
    /\ UNCHANGED <<level, outputChunk, apart>>

\* The caller calls analyseGrain(data, stride, muteFrameCountHead, muteFrameCountTail).
AnalyseGrain(data, muteFrameCountHead, muteFrameCountTail, overlap) ==
    /\ ~aborted
    /\ With(analyseGrain(s, level, data, muteFrameCountHead, muteFrameCountTail, overlap),
            LAMBDA r :
           /\ s' = r.s
           /\ aborted' = r.aborted
           /\ logged' = r.logged
           /\ dataRead' = r.read
           /\ calls' = IF r.aborted THEN calls ELSE Append(calls, names[2]))
    /\ call' = 1
    /\ UNCHANGED <<level, hist, inputChunk, outputChunk, bufferStart, apart>>

\* The caller calls synthesiseGrain(outputChunk).
SynthesiseGrain ==
    /\ ~aborted
    /\ With(synthesiseGrain(s, level), LAMBDA r :
           /\ s' = r.s
           /\ aborted' = r.aborted
           /\ logged' = r.logged
           /\ outputChunk' = IF r.aborted THEN outputChunk ELSE r.chunk
           /\ calls' = IF r.aborted THEN calls ELSE Append(calls, names[3]))
    /\ call' = 2
    /\ dataRead' = FALSE
    /\ UNCHANGED <<level, hist, inputChunk, bufferStart, apart>>

\* The caller calls enableInstrumentation(enable).
EnableInstrumentation(enable) ==
    /\ ~aborted
    /\ s.enabled # enable
    /\ s' = [s EXCEPT !.enabled = enable]
    /\ UNCHANGED <<level, aborted, call, calls, hist, inputChunk, outputChunk, logged,
                   bufferStart, dataRead, apart>>

\* Stretcher::isFlushed
isFlushed == flushed(s)

\* The second instance as created, with its caller's chunks.
Other(sampleRates, log2SynthesisHop, resets) ==
    [s |-> Stretcher(sampleRates, log2SynthesisHop, resets),
     aborted |-> FALSE,
     calls |-> <<>>,
     hist |-> <<>>,
     inputChunk |-> InputChunk(0, 0),
     outputChunk |-> [request |-> <<0, 0>>]]

\* specifyGrain(request, bufferStartPosition) on the second instance
SpecifyGrainOther(request, bufferStartPosition) ==
    /\ ~other.aborted
    /\ With(specifyGrain(other.s, level, request, bufferStartPosition), LAMBDA r :
           other' = [other EXCEPT
               !.s = r.s,
               !.aborted = r.aborted,
               !.inputChunk = IF r.aborted THEN @ ELSE r.chunk,
               !.hist = IF r.aborted THEN @ ELSE Append(@, request),
               !.calls = IF r.aborted THEN @ ELSE Append(@, names[1])])
    /\ UNCHANGED <<s, level, aborted, call, calls, hist, inputChunk, outputChunk, logged,
                   bufferStart, dataRead, script, stream, resampler>>

\* analyseGrain(data, stride, muteFrameCountHead, muteFrameCountTail) on the
\* second instance
AnalyseGrainOther(data, muteFrameCountHead, muteFrameCountTail, overlap) ==
    /\ ~other.aborted
    /\ With(analyseGrain(other.s, level, data, muteFrameCountHead, muteFrameCountTail,
                         overlap), LAMBDA r :
           other' = [other EXCEPT
               !.s = r.s,
               !.aborted = r.aborted,
               !.calls = IF r.aborted THEN @ ELSE Append(@, names[2])])
    /\ UNCHANGED <<s, level, aborted, call, calls, hist, inputChunk, outputChunk, logged,
                   bufferStart, dataRead, script, stream, resampler>>

\* synthesiseGrain(outputChunk) on the second instance
SynthesiseGrainOther ==
    /\ ~other.aborted
    /\ With(synthesiseGrain(other.s, level), LAMBDA r :
           other' = [other EXCEPT
               !.s = r.s,
               !.aborted = r.aborted,
               !.outputChunk = IF r.aborted THEN @ ELSE r.chunk,
               !.calls = IF r.aborted THEN @ ELSE Append(@, names[3])])
    /\ UNCHANGED <<s, level, aborted, call, calls, hist, inputChunk, outputChunk, logged,
                   bufferStart, dataRead, script, stream, resampler>>

\* Stretcher::maxInputFrameCount. Timing::maxInputFrameCount is not among the
\* sources: by the specification a number fixed when the instance is made, at
\* least the transform length and enough for a grain at any supported pitch.
\* Here: MaxInputFrameFactor transform lengths.
maxInputFrameCount(t) == Pow2(t.log2SynthesisHop + 3) * MaxInputFrameFactor

\* ------------------------------------------------------------------------
\* Bungee::Stream

\* std::floor of a finite double, as an integer
FloorInt(x) == x[1] \div x[2]

Min(a, b) == IF a < b THEN a ELSE b

\* Stream::Stream on the instance: request{} with position NaN, an empty
\* InputBuffer and outputChunk{}. mode is the ResampleMode of value 0;
\* assertions tells whether the build keeps assert() (NDEBUG not defined).
\* requested, rendered, returned and count record the process calls that
\* returned.
Stream(mode, assertions, maxInputFrameCountArg, instance) ==
    [request |-> Request(NaN, Num(0), Num(0), FALSE, mode),
     begin |-> 0,
     end |-> 0,
     inputChunk |-> InputChunk(0, 0),
     channelStride |-> maxInputFrameCount(instance) + maxInputFrameCountArg,
     outputChunk |-> [frameCount |-> 0, request |-> <<0, 0>>],
     outputChunkConsumed |-> 0,
     framesNeeded |-> Num(0),
     assertions |-> assertions,
     processing |-> FALSE,
     frameCounter |-> 0,
     inputFrameCount |-> 0,
     outputFrameCount |-> Num(0),
     requested |-> Num(0),
     rendered |-> 0,
     returned |-> <<>>,
     count |-> 0]

\* InputBuffer::append: begin and end afterwards, and whether an assert fails
append(st, inputFrameCount) ==
    With(IF st.inputChunk.begin < st.end
         THEN [discard |-> 0,
               begin |-> IF st.begin < st.inputChunk.begin
                         THEN st.inputChunk.begin ELSE st.begin]
         ELSE [discard |-> Min(st.inputChunk.begin - st.begin, inputFrameCount),
               begin |-> st.end], LAMBDA a :
        [begin |-> a.begin + a.discard,
         end |-> st.end + inputFrameCount,
         failed |-> \/ st.end + inputFrameCount < a.begin + a.discard
                    \/ st.end + inputFrameCount - (a.begin + a.discard) > st.channelStride])

\* The frames that one pass of the loop of Stream::process copies
\* (lines 171-186): none while outputChunk.request[0] is null or invalid
copied(st, instance) ==
    IF st.outputChunk.request[1] = 0
    THEN 0
    ELSE IF isnan(instance.heap[st.outputChunk.request[1]].request.position)
    THEN 0
    ELSE Min(RoundInt(st.framesNeeded) - st.frameCounter,
             st.outputChunk.frameCount - st.outputChunkConsumed)

copy(st, instance) ==
    [st EXCEPT !.frameCounter = @ + copied(st, instance),
               !.outputChunkConsumed = @ + copied(st, instance)]

\* framesNeeded with no remainder carried to the next call
carryNothing(framesNeeded, frameCounter) == Num(0)

\* Stream::process, line 189: the remainder carried to the next call
carry(framesNeeded, frameCounter) == Sub(framesNeeded, Num(frameCounter))

\* Stream::process, lines 188-190, once the loop has ended; the loop goes on
\* while frameCounter differs from round(framesNeeded)
return(st) ==
    IF st.frameCounter # RoundInt(st.framesNeeded)
    THEN [st |-> st, failed |-> FALSE]
    ELSE [st |-> [st EXCEPT
                    !.processing = FALSE,
                    !.framesNeeded = carry(st.framesNeeded, st.frameCounter),
                    !.requested = Add(@, st.outputFrameCount),
                    !.rendered = @ + st.frameCounter,
                    !.returned = <<st.frameCounter, st.outputFrameCount>>,
                    !.count = @ + 1],
          failed |-> /\ st.frameCounter # FloorInt(st.outputFrameCount)
                     /\ st.frameCounter # CeilInt(st.outputFrameCount)]

\* Stream::process, lines 165-167: the position of the next grain
nextPosition(st, instance) ==
    Sub(Sub(Num(st.end), Num(maxInputFrameCount(instance) \div 2)),
        Div(Mul(Num(st.inputFrameCount),
                Sub(round(st.outputFrameCount), Num(st.frameCounter))),
            round(st.outputFrameCount)))

\* The stream with its instance during a call of Stream::process
World ==
    [st |-> stream, s |-> s, aborted |-> aborted, call |-> call, calls |-> calls,
     hist |-> hist, outputChunk |-> outputChunk, logged |-> logged,
     dataRead |-> dataRead]

\* InputBuffer::analyseGrain, called when request.position is not NaN
analysing(w, overlap) ==
    With(w.st.begin - w.st.inputChunk.begin, LAMBDA muteHead :
    With(w.st.inputChunk.end - w.st.end, LAMBDA muteTail :
    With(analyseGrain(w.s, level, 1, muteHead, muteTail, overlap), LAMBDA r :
        IF isnan(w.st.request.position)
        THEN w
        ELSE IF /\ w.st.assertions
                /\ muteHead < w.st.inputChunk.end - w.st.inputChunk.begin
                /\ muteTail > 0
        THEN [w EXCEPT !.aborted = TRUE, !.logged = "assert"]
        ELSE [w EXCEPT !.s = r.s,
                       !.aborted = r.aborted,
                       !.logged = r.logged,
                       !.dataRead = r.read,
                       !.call = 1,
                       !.calls = IF r.aborted THEN @ ELSE Append(@, names[2])])))

\* Stream::process, lines 157-158; frameCount is the length of the chunk that
\* Segment::resample makes, which is not among the sources
synthesising(w, frameCount) ==
    With(synthesiseGrain(w.s, level), LAMBDA r :
        IF w.aborted \/ isnan(w.st.request.position)
        THEN w
        ELSE IF r.aborted
        THEN [w EXCEPT !.s = r.s, !.aborted = TRUE, !.logged = r.logged, !.call = 2]
        ELSE [w EXCEPT !.s = r.s,
                       !.logged = r.logged,
                       !.dataRead = FALSE,
                       !.call = 2,
                       !.calls = Append(@, names[3]),
                       !.outputChunk = r.chunk,
                       !.st.outputChunk = [frameCount |-> frameCount,
                                            request |-> r.chunk.request],
                       !.st.outputChunkConsumed = 0])

\* Stream::process, lines 161-168
specifying(w) ==
    With([w.st.request EXCEPT
            !.reset = ~Less(w.st.request.position, nextPosition(w.st, w.s)),
            !.position = nextPosition(w.st, w.s)], LAMBDA request :
    With(specifyGrain(w.s, level, request, Num(0)), LAMBDA r :
        IF w.aborted
        THEN w
        ELSE IF r.aborted
        THEN [w EXCEPT !.s = r.s, !.aborted = TRUE, !.logged = r.logged, !.call = 0,
                       !.st.request = request]
        ELSE [w EXCEPT !.s = r.s,
                       !.logged = r.logged,
                       !.dataRead = FALSE,
                       !.call = 0,
                       !.calls = Append(@, names[1]),
                       !.hist = Append(@, request),
                       !.st.request = request,
                       !.st.inputChunk = r.chunk]))

\* Stream::process, lines 171-185
copying(w) == IF w.aborted THEN w ELSE [w EXCEPT !.st = copy(w.st, w.s)]

\* Stream::process, lines 150 and 188-190
returning(w) ==
    IF w.aborted
    THEN w
    ELSE IF return(w.st).failed /\ w.st.assertions
    THEN [w EXCEPT !.aborted = TRUE, !.logged = "assert"]
    ELSE [w EXCEPT !.st = return(w.st).st]

\* the state that a step of Stream::process leaves
Leave(w) ==
    /\ stream' = w.st
    /\ s' = w.s
    /\ aborted' = w.aborted
    /\ call' = w.call
    /\ calls' = w.calls
    /\ hist' = w.hist
    /\ inputChunk' = w.st.inputChunk
    /\ outputChunk' = w.outputChunk
    /\ logged' = w.logged
    /\ dataRead' = w.dataRead
    /\ UNCHANGED <<level, bufferStart, other, script, resampler>>

\* The caller calls process(inputPointers, outputPointers, inputFrameCount,
\* outputFrameCount, pitch): the call up to the end of the first pass of its
\* loop, which processes no grain. overrun tells whether writing past the end
\* of the buffer ends the program where no assert guards it.
Process(inputFrameCount, outputFrameCount, pitch, overrun, max) ==
    /\ ~aborted
    /\ ~stream.processing
    /\ stream.count < max
    /\ With(append(stream, inputFrameCount), LAMBDA a :
       With([stream EXCEPT
               !.begin = a.begin,
               !.end = a.end,
               !.request.speed = Div(Num(inputFrameCount), outputFrameCount),
               !.request.pitch = pitch,
               !.framesNeeded = Add(@, outputFrameCount),
               !.frameCounter = 0,
               !.inputFrameCount = inputFrameCount,
               !.outputFrameCount = outputFrameCount,
               !.processing = TRUE], LAMBDA st :
           IF a.failed /\ (stream.assertions \/ overrun)
           THEN Leave([World EXCEPT !.aborted = TRUE])
           ELSE IF st.frameCounter = RoundInt(st.framesNeeded)
           THEN Leave(returning([World EXCEPT !.st = st]))
           ELSE Leave(returning(copying([World EXCEPT !.st = st])))))

\* One further pass of the loop of Stream::process, which processes a grain;
\* max bounds the number of grains of a run.
ProcessGrain(frameCount, overlap, max) ==
    /\ ~aborted
    /\ stream.processing
    /\ Len(hist) < max
    /\ Leave(returning(copying(specifying(synthesising(analysing(World, overlap),
                                                         frameCount)))))

\* ------------------------------------------------------------------------
\* Resample::resample

\* Internal::padding for float samples
Padding == 32

\* Resample::Internal of maxFrameCount frames. contributors are the external
\* rows that the array has accumulated.
Internal(maxFrameCount, offset) ==
    [stride |-> Padding + maxFrameCount + Padding,
     frameCount |-> 0,
     offset |-> offset,
     contributors |-> {}]

\* Resample::External on a buffer of the given rows. ref tells, row by row,
\* what a call has done to the buffer: "kept" is a row that was not written.
External(rows, muteHead, muteTail) ==
    [rows |-> rows,
     unmutedBegin |-> muteHead,
     unmutedEnd |-> rows - muteTail,
     activeFrameCount |-> rows,
     ref |-> [row \in 0 .. rows - 1 |-> "kept"]]

\* the first ratio without the half step of the gradient
ratioStateRatioBegin(ratioBegin, ratioGradient) == ratioBegin

\* RatioState<false>::RatioState, line 127: the ratio of the first row
ratioStateRatio(ratioBegin, ratioGradient) ==
    Add(ratioBegin, Mul(Frac(1, 2), ratioGradient))

\* RatioState<ratioIsConstant>::RatioState
RatioState(ratioIsConstant, offset, ratioBegin, ratioGradient) ==
    [ratioGradient |-> IF ratioIsConstant THEN Num(0) ELSE ratioGradient,
     ratio |-> IF ratioIsConstant THEN ratioBegin
               ELSE ratioStateRatio(ratioBegin, ratioGradient),
     x |-> offset]

\* RatioState<ratioIsConstant>::step
ratioStateStep(ratioState) ==
    [ratioState EXCEPT !.x = Add(@, ratioState.ratio),
                       !.ratio = Add(@, ratioState.ratioGradient)]

\* the levels of the assertions that fail for one row of Loop::run and in
\* Bilinear::step
rowAsserts(ratioState, stride, inRange) ==
    (IF Less(ratioState.x, Num(0)) \/ ~Less(Num(0), ratioState.ratio) THEN {2} ELSE {})
    \cup
    (IF inRange /\ ~Less(ratioState.x, Num(0))
           /\ TruncInt(ratioState.x) + 1 >= stride THEN {2} ELSE {})

\* Loop::run from the given row on. w holds the RatioState, the two buffers
\* and the levels of the assertions that have failed.
RECURSIVE run(_, _, _)
run(mode, w, row) ==
    IF row >= w.external.activeFrameCount
    THEN w
    ELSE With(row >= w.external.unmutedBegin /\ row < w.external.unmutedEnd,
              LAMBDA inRange :
            run(mode,
                [w EXCEPT
                    !.asserts = @ \cup rowAsserts(w.ratioState, w.internal.stride, inRange),
                    !.internal.contributors =
                        IF inRange /\ mode = "Input" THEN @ \cup {row} ELSE @,
                    !.external.ref[row] =
                        IF inRange /\ mode = "Output" THEN "interpolated" ELSE @,
                    !.ratioState = ratioStateStep(w.ratioState)],
                row + 1))

\* resampleSpecial
resampleSpecial(mode, internal, external, ratioBegin, ratioEnd) ==
    With(Div(Sub(ratioEnd, ratioBegin), Num(external.activeFrameCount)),
         LAMBDA ratioGradient :
    With(run(mode,
             [ratioState |-> RatioState(ratioBegin = ratioEnd,
                                        Add(Num(Padding), internal.offset),
                                        ratioBegin, ratioGradient),
              internal |-> IF mode = "Input"
                           THEN [internal EXCEPT !.contributors = {}] ELSE internal,
              external |-> external,
              asserts |-> {}],
             0), LAMBDA w :
        [internal |-> [w.internal EXCEPT !.offset = Sub(w.ratioState.x, Num(Padding))],
         external |-> w.external,
         asserts |-> w.asserts]))

\* Resample::resample, lines 207-227, for activeFrameCount > 0. residual is
\* internal.offset as line 223 finds it.
resampleActive(mode, internal, external, ratioBegin, ratioEnd, alignEnd) ==
    With(IF alignEnd
         THEN Sub(Mul(Num(2), Div(Sub(Num(internal.frameCount), internal.offset),
                                  Num(external.activeFrameCount))),
                  ratioBegin)
         ELSE ratioEnd, LAMBDA end :
    With(clamp(external.unmutedBegin, 0, external.activeFrameCount), LAMBDA unmutedBegin :
    With(resampleSpecial(mode, internal,
                         [external EXCEPT
                            !.unmutedBegin = unmutedBegin,
                            !.unmutedEnd = clamp(@, unmutedBegin, external.activeFrameCount)],
                         ratioBegin, end), LAMBDA r :
    With(Sub(r.internal.offset, Num(internal.frameCount)), LAMBDA residual :
    With(Less(IF alignEnd THEN Frac(1, 100) ELSE Mul(end, Frac(11, 10)), fabs(residual)),
         LAMBDA landedBadly :
        [internal |-> [r.internal EXCEPT !.offset = IF landedBadly THEN Num(0) ELSE residual],
         external |-> r.external,
         residual |-> residual,
         landedBadly |-> landedBadly,
         asserts |-> r.asserts
                       \cup (IF alignEnd /\ ~Less(Num(0), end) THEN {1} ELSE {})
                       \cup (IF landedBadly THEN {1} ELSE {})])))))

\* Resample::resample
resample(mode, internal, external, ratioBegin, ratioEnd, alignEnd) ==
    With(RoundInt(Div(Mul(Num(2), Sub(Num(internal.frameCount), internal.offset)),
                      Add(ratioBegin, ratioEnd))), LAMBDA idealFrameCount :
    With(idealFrameCount > external.rows, LAMBDA truncate :
    With([external EXCEPT
            !.activeFrameCount = IF truncate THEN @ ELSE idealFrameCount], LAMBDA e :
    With(IF truncate THEN {1} ELSE {}, LAMBDA asserts :
        IF e.activeFrameCount > 0
        THEN With(resampleActive(mode, internal, e, ratioBegin, ratioEnd, alignEnd),
                  LAMBDA r : [r EXCEPT !.asserts = @ \cup asserts])
        ELSE [internal |-> internal,
              external |-> e,
              residual |-> internal.offset,
              landedBadly |-> FALSE,
              asserts |-> asserts]))))

\* A caller sets internal.frameCount, builds an External on a buffer of the
\* given rows and calls the resample function of the mode; max bounds the
\* number of calls of a run.
Resample(mode, frameCount, rows, muteHead, muteTail, ratioBegin, ratioEnd, alignEnd, max) ==
    /\ ~aborted
    /\ resampler.count < max
    /\ With(resample(mode, [resampler.internal EXCEPT !.frameCount = frameCount],
                     External(rows, muteHead, muteTail), ratioBegin, ratioEnd, alignEnd),
            LAMBDA r :
           /\ resampler' = [internal |-> r.internal,
                            external |-> r.external,
                            residual |-> r.residual,
                            landedBadly |-> r.landedBadly,
                            mode |-> mode,
                            alignEnd |-> alignEnd,
                            count |-> resampler.count + 1]
           /\ aborted' = (\E l \in r.asserts \cup ({check(rows, muteHead, muteTail)} \ {0}) :
                              l <= level))
    /\ UNCHANGED <<s, level, call, calls, hist, inputChunk, outputChunk, logged,
                   bufferStart, dataRead, other, script, stream>>

\* ------------------------------------------------------------------------
\* The pipeline: one instance driven through a bounded number of grains

\* grains per run
MaxGrains == 5

SampleRates(input, output) == [input |-> input, output |-> output]

\* requests at unit speed and pitch: a flush request, a position that
\* continues from the previous grain and a position that resets
Requests ==
    {Request(NaN, Num(1), Num(1), FALSE, "autoInOut"),
     Request(Num(0), Num(1), Num(1), FALSE, "autoInOut"),
     Request(Num(4), Num(1), Num(1), TRUE, "autoInOut")}

\* analyseGrain arguments: audio, a null pointer and audio that holds NaN
Audio ==
    {[data |-> 1, head |-> 0, tail |-> 0],
     [data |-> 0, head |-> 0, tail |-> 0],
     [data |-> 2, head |-> 0, tail |-> 0]}

\* no second instance and no Stream
Alone == other = <<>> /\ script = <<>> /\ stream = <<>> /\ resampler = <<>>

Init == Create({SampleRates(1, 1)}, {2}, {0, 1}, [GrainIds -> BOOLEAN]) /\ Alone

Next ==
    \/ \E request \in Requests : SpecifyGrain(request, Num(0), MaxGrains)
    \/ \E a \in Audio : AnalyseGrain(a.data, a.head, a.tail, "continue")
    \/ SynthesiseGrain
    \/ \E enable \in BOOLEAN : EnableInstrumentation(enable)

Spec == Init /\ [][Next]_vars

\* ------------------------------------------------------------------------
\* Single grains: instances of several sample rates and hops, driven through
\* a few grains by a caller that keeps pitch and resample mode for the run
\* (as cmd/main.cpp does) and asks for positions on and between frames

\* grains per run
MaxGrainsWide == 2

Pitches == {Frac(1, 2), Num(1), Frac(3, 2), Num(8)}

Positions == {NaN, Frac(-5, 2), Num(3)}

BufferStartPositions == {Num(0), Frac(1, 2)}

GrainRequests ==
    {Request(position, Num(1), pitch, reset, resampleMode) :
        position \in Positions, pitch \in Pitches, reset \in BOOLEAN,
        resampleMode \in ResampleModes}

\* the caller changes neither pitch nor resample mode during a run
Steady(request) ==
    IF hist = <<>> THEN TRUE
    ELSE /\ request.pitch = hist[Len(hist)].pitch
         /\ request.resampleMode = hist[Len(hist)].resampleMode

\* memory that was all zero or all one before the instance was made
Memory == {[u \in GrainIds |-> reset] : reset \in BOOLEAN}

InitGrain ==
    Create({SampleRates(1, 1), SampleRates(2, 3)}, {1, 2}, {0, 1}, Memory) /\ Alone

NextGrain ==
    \/ \E request \in GrainRequests, bufferStartPosition \in BufferStartPositions :
            /\ Steady(request)
            /\ SpecifyGrain(request, bufferStartPosition, MaxGrainsWide)
    \/ AnalyseGrain(1, 0, 0, "continue")
    \/ SynthesiseGrain

SpecGrain == InitGrain /\ [][NextGrain]_vars

\* ------------------------------------------------------------------------
\* Two instances of one configuration: each caller makes the calls of the
\* script, in order and with the script's arguments, at its own pace

\* grains per run
MaxGrainsPair == 2

\* one cycle of a script: the request and the audio
Cycles == [request : Requests, audio : Audio]

InitPair ==
    /\ Create({SampleRates(1, 1)}, {2}, {0, 1}, Memory)
    /\ \E resets \in Memory : other = Other(s.sampleRates, s.log2SynthesisHop, resets)
    /\ script \in [1 .. MaxGrainsPair -> Cycles]
    /\ stream = <<>>
    /\ resampler = <<>>

NextPair ==
    \/ /\ s.expected = 0
       /\ Len(hist) < Len(script)
       /\ SpecifyGrain(script[Len(hist) + 1].request, Num(0), MaxGrainsPair)
    \/ /\ s.expected = 1
       /\ AnalyseGrain(script[Len(hist)].audio.data, script[Len(hist)].audio.head,
                       script[Len(hist)].audio.tail, "continue")
    \/ /\ s.expected = 2
       /\ SynthesiseGrain
    \/ /\ other.s.expected = 0
       /\ Len(other.hist) < Len(script)
       /\ SpecifyGrainOther(script[Len(other.hist) + 1].request, Num(0))
    \/ /\ other.s.expected = 1
       /\ AnalyseGrainOther(script[Len(other.hist)].audio.data,
                            script[Len(other.hist)].audio.head,
                            script[Len(other.hist)].audio.tail, "continue")
    \/ /\ other.s.expected = 2
       /\ SynthesiseGrainOther

SpecPair == InitPair /\ [][NextPair]_vars

\* ------------------------------------------------------------------------
\* Pitch: builds of every assertion level, whose caller also asks for a
\* pitch that is not positive

\* grains per run
MaxGrainsPitch == 2

PitchRequests ==
    {Request(position, Num(1), pitch, FALSE, resampleMode) :
        position \in {NaN, Num(0)},
        pitch \in {Num(1), Num(-1), Frac(-1, 2)},
        resampleMode \in ResampleModes}

InitPitch == Create({SampleRates(1, 1)}, {2}, {0, 1, 2}, Memory) /\ Alone

\* With a request of pitch <= 0 in the grain the sizes that analyseGrain and
\* synthesiseGrain compute are negative and what they do is undefined: the
\* caller is followed up to there.
NextPitch ==
    \/ \E request \in PitchRequests : SpecifyGrain(request, Num(0), MaxGrainsPitch)
    \/ /\ Less(Num(0), At(s, 0).request.pitch)
       /\ \E a \in Audio : AnalyseGrain(a.data, a.head, a.tail, "continue")
    \/ /\ Less(Num(0), At(s, 0).request.pitch)
       /\ SynthesiseGrain

SpecPitch == InitPitch /\ [][NextPitch]_vars

\* ------------------------------------------------------------------------
\* The stream: process calls of varying lengths on a Stream of one instance

\* process calls per run
MaxProcess == 3

\* grains per run
MaxGrainsStream == 5

\* the maxInputFrameCount that the Stream is made for
MaxInputFrames == 1

InputFrameCounts == 1 .. MaxInputFrames

OutputFrameCounts == {Frac(1, 4), Num(1), Frac(3, 2), Frac(5, 2)}

\* the lengths of the chunks that synthesiseGrain makes
ChunkFrameCounts == 0 .. 2

InitStream ==
    /\ Create({SampleRates(1, 1)}, {0}, {0, 1}, {[u \in GrainIds |-> FALSE]})
    /\ \E mode \in ResampleModes, assertions \in BOOLEAN :
           stream = Stream(mode, assertions, MaxInputFrames, s)
    /\ other = <<>>
    /\ script = <<>>
    /\ resampler = <<>>

NextStream ==
    \/ \E inputFrameCount \in InputFrameCounts, outputFrameCount \in OutputFrameCounts,
          overrun \in BOOLEAN :
            Process(inputFrameCount, outputFrameCount, Num(1), overrun, MaxProcess)
    \/ \E frameCount \in ChunkFrameCounts, overlap \in {"abort", "continue"} :
            ProcessGrain(frameCount, overlap, MaxGrainsStream)

SpecStream == InitStream /\ [][NextStream]_vars

\* ------------------------------------------------------------------------
\* Mute: a caller that mutes the head and the tail of its chunks, also more
\* frames than a chunk has, with and without the input resampler

\* grains per run
MaxGrainsMute == 2

MuteRequests ==
    {Request(position, Num(1), Num(1), FALSE, resampleMode) :
        position \in {NaN, Num(0)}, resampleMode \in {"autoInOut", "forceIn"}}

\* head + tail is less than, equal to and more than the 32 frames of a chunk
MuteAudio ==
    [data : {0, 1}, head : {-8, 16, 32}, tail : {0, 16, 40}]

InitMute ==
    Create({SampleRates(1, 1)}, {2}, {0, 1, 2}, {[u \in GrainIds |-> FALSE]}) /\ Alone

NextMute ==
    \/ \E request \in MuteRequests : SpecifyGrain(request, Num(0), MaxGrainsMute)
    \/ \E a \in MuteAudio, overlap \in {"abort", "continue"} :
            AnalyseGrain(a.data, a.head, a.tail, overlap)
    \/ SynthesiseGrain
    \/ \E enable \in BOOLEAN : EnableInstrumentation(enable)

SpecMute == InitMute /\ [][NextMute]_vars

\* ------------------------------------------------------------------------
\* Timing: a caller that moves through the input at unit pitch, forwards and
\* backwards, on and off the frame grid, with and without reset

\* grains per run
MaxGrainsTiming == 3

TimingPositions == {NaN, Num(0), Frac(5, 2), Num(4)}

\* a request that resets gives any speed; one that continues gives the speed
\* of the grid or half of it
TimingRequests ==
    {Request(position, speed, Num(1), TRUE, "autoInOut") :
        position \in TimingPositions, speed \in {Num(1), Num(-1), Frac(1, 2)}}
    \cup
    {Request(position, speed, Num(1), FALSE, "autoInOut") :
        position \in TimingPositions, speed \in {Num(1), Frac(1, 2)}}

InitTiming ==
    /\ Create({SampleRates(1, 1), SampleRates(3, 2)}, {2}, {0},
              {[u \in GrainIds |-> FALSE]})
    /\ Alone

NextTiming ==
    \/ \E request \in TimingRequests : SpecifyGrain(request, Num(0), MaxGrainsTiming)
    \/ AnalyseGrain(1, 0, 0, "continue")
    \/ SynthesiseGrain

SpecTiming == InitTiming /\ [][NextTiming]_vars

\* ------------------------------------------------------------------------
\* The resampler: calls of the resample functions on one Internal

\* calls per run
MaxResamples == 2

\* frames of the Internal
MaxFrameCount == 8

Ratios == {Frac(1, 2), Num(1), Frac(3, 2)}

\* muteHead and muteTail of a call
Mutes == {<<0, 0>>, <<2, 1>>}

InitResample ==
    /\ Create({SampleRates(1, 1)}, {0}, {0, 1}, {[u \in GrainIds |-> FALSE]})
    /\ other = <<>>
    /\ script = <<>>
    /\ stream = <<>>
    /\ \E offset \in {Num(0), Frac(1, 2)} :
           resampler = [internal |-> Internal(MaxFrameCount, offset),
                        external |-> External(0, 0, 0),
                        residual |-> offset,
                        landedBadly |-> FALSE,
                        mode |-> "Input",
                        alignEnd |-> FALSE,
                        count |-> 0]

NextResample ==
    \E mode \in {"Input", "Output"}, rows \in {6, 8}, mute \in Mutes,
       ratioBegin \in Ratios, ratioEnd \in Ratios, alignEnd \in BOOLEAN :
        Resample(mode, MaxFrameCount, rows, mute[1], mute[2], ratioBegin, ratioEnd,
                 alignEnd, MaxResamples)

SpecResample == InitResample /\ [][NextResample]_vars

\* ------------------------------------------------------------------------
\* Properties of the pipeline

\* the grain at index 0 of the ring is between synthesiseGrain and the next
\* specifyGrain
Synthesised == calls # <<>> /\ Len(calls) % 3 = 0 /\ ~aborted

\* the number of flush requests (position NaN) at the end of h
RECURSIVE NanRun(_)
NanRun(h) ==
    IF h = <<>> \/ ~isnan(h[Len(h)].position) THEN 0
    ELSE 1 + NanRun(SubSeq(h, 1, Len(h) - 1))

\* C1: the calls that have returned are specifyGrain, analyseGrain,
\* synthesiseGrain, specifyGrain, ... in this order, and the guard expects the
\* operation that continues the cycle (0 on a fresh instance, then 1, 2, 0, ...)
\* for as long as no call has aborted.
C1_CallCycle ==
    /\ ~aborted => s.expected = Len(calls) % 3
    /\ \A i \in 1 .. Len(calls) : calls[i] = names[((i - 1) % 3) + 1]

\* C1 witness: a second cycle has begun after a complete first one
C1_Witness == Len(calls) = 5 /\ ~aborted

\* C2: a step that calls an operation other than the expected one aborts, with
\* the stretcher, the caller's chunks and the audio untouched, whatever
\* instrumentation says.
C2_WrongCallAborts ==
    [][\A sequence \in 0 .. 2 :
        (/\ call' = sequence
         /\ (calls' # calls \/ aborted' # aborted)
         /\ sequence # s.expected)
        => (/\ aborted'
            /\ s' = s
            /\ calls' = calls
            /\ hist' = hist
            /\ inputChunk' = inputChunk
            /\ outputChunk' = outputChunk
            /\ ~dataRead')]_vars

\* C2 witness: analyseGrain as the first call on a fresh instance, with
\* instrumentation disabled, has aborted without a log message
C2_Witness ==
    aborted /\ call = 1 /\ calls = <<>> /\ ~s.enabled /\ logged = "none"

\* C3: when the k-th synthesiseGrain has returned, outputChunk.request[0] points
\* to the request of the grain at ring index 2, which is the request of the
\* (k-2)-th specifyGrain, and request[1] to that of the grain at ring index 1,
\* the request of the (k-1)-th; for k <= 2 request[0] points to a request whose
\* position is NaN.
C3_OutputRequests ==
    Synthesised =>
        /\ outputChunk.request = <<s.vector[3], s.vector[2]>>
        /\ Len(hist) >= 3 =>
            s.heap[outputChunk.request[1]].request = hist[Len(hist) - 2]
        /\ Len(hist) >= 2 =>
            s.heap[outputChunk.request[2]].request = hist[Len(hist) - 1]
        /\ Len(hist) <= 2 =>
            isnan(s.heap[outputChunk.request[1]].request.position)

\* C3 witness: the third synthesiseGrain, of an invalid grain, has returned the
\* requests of two valid grains
C3_Witness ==
    /\ Synthesised
    /\ Len(hist) = 3
    /\ isnan(hist[3].position)
    /\ ~isnan(s.heap[outputChunk.request[1]].request.position)
    /\ ~isnan(s.heap[outputChunk.request[2]].request.position)

\* C4 as claimed: once the last three requests were flush requests, isFlushed()
\* is true.
C4_FlushedAfterThree == (~aborted /\ NanRun(hist) >= 3) => isFlushed

\* C4 amended: once the last four requests were flush requests, isFlushed() is true.
C4_FlushedAfterFour == (~aborted /\ NanRun(hist) >= 4) => isFlushed

\* C4 witness: a valid grain followed by four flush grains
C4_Witness ==
    /\ Len(hist) = 5
    /\ ~isnan(hist[1].position)
    /\ NanRun(hist) = 4
    /\ Synthesised

\* C5: isFlushed() is true exactly when each of the last four requests had
\* position NaN, the grains of a fresh instance counting as such requests.
C5_FlushedIffLastFour ==
    ~aborted =>
        (isFlushed <=>
            \A i \in 1 .. Len(hist) : i > Len(hist) - 4 => isnan(hist[i].position))

\* C5 witness: three flush requests after a valid one, itself after a flush
\* request: only the oldest of the last four keeps isFlushed() false
C5_Witness ==
    /\ Len(hist) = 5
    /\ isnan(hist[1].position)
    /\ ~isnan(hist[2].position)
    /\ NanRun(hist) = 3
    /\ ~isFlushed

\* C9: in a cycle for a request with NaN position no call made in order aborts,
\* and analyseGrain sets the two mute counts and validBinCount = 0 in the grain
\* at index 0 and changes nothing else: no buffer of any grain, and it does not
\* read through data.
C9_FlushCycle ==
    [][/\ (aborted' /\ ~aborted /\ call' = s.expected)
            => ~isnan(IF call' = 0 THEN At(s', 0).request.position
                                   ELSE At(s, 0).request.position)
       /\ (call' = 1 /\ calls' # calls /\ isnan(At(s, 0).request.position))
            => /\ ~dataRead'
               /\ s'.vector = s.vector
               /\ s'.heap = [s.heap EXCEPT ![s.vector[1]] =
                    [@ EXCEPT
                        !.muteFrameCountHead = At(s', 0).muteFrameCountHead,
                        !.muteFrameCountTail = At(s', 0).muteFrameCountTail,
                        !.validBinCount = 0]]]_vars

\* C9 witness: the cycle of a flush request is complete, its grain holding the
\* energy of an earlier analysis
C9_Witness ==
    /\ Synthesised
    /\ Len(hist) = 3
    /\ isnan(At(s, 0).request.position)
    /\ At(s, 0).energy.data # Zero
    /\ At(s, 0).validBinCount = 0

\* the buffer sets (as numbered when the instance was made) that the grains
\* of the ring positions in p hold as their array k
Held(k, p) == {At(s, i)[k].buf : i \in p}

Heavy == {"phase", "energy", "rotation", "partials"}

\* C21: ring positions 0 and 1 always hold the two sets of heavy buffers that
\* they held when the instance was made, positions 2 and 3 the other two, each
\* set whole and none twice; and a rotation leaves at position 1 the buffers,
\* with their contents, that position 0 held before.
C21_HeavyBuffers ==
    /\ [](\A k \in Heavy :
            /\ Held(k, {0, 1}) = {1, 2}
            /\ Held(k, {2, 3}) = {3, 4}
            /\ \A i \in 0 .. 3 : At(s, i)[k].buf = At(s, i).phase.buf)
    /\ [][s'.vector # s.vector =>
             \A k \in Heavy : At(s', 1)[k] = At(s, 0)[k]]_vars

\* after the third rotation position 1 holds the analysed buffers of the grain
\* before, in the set that position 0 held first
C21_Witness ==
    /\ ~aborted
    /\ Len(hist) = 3
    /\ call = 0
    /\ At(s, 1).energy.data # Zero
    /\ At(s, 1).energy.buf = 1

\* The grains whose requests the OutputChunk of the n-th synthesiseGrain refers
\* to: the grains that the n-th cycle has at ring indices 2 and 1.
Targets(n) == <<((2 + 3 * n) % 4) + 1, ((1 + 3 * n) % 4) + 1>>

\* C26: the two requests that the OutputChunk of the n-th synthesiseGrain
\* refers to are those of the grains then at ring indices 2 and 1. A
\* specifyGrain overwrites the request of the grain that was at ring index 3
\* and of no other grain, so that both requests keep their values through the
\* next specifyGrain; the second following specifyGrain is the first to
\* overwrite the target of request[0] and the third the first to overwrite
\* that of request[1].
C26_RequestsOutlive ==
    /\ [](~aborted =>
            /\ Len(calls) >= 3 => outputChunk.request = Targets(Len(calls) \div 3)
            /\ \A n \in 1 .. Len(calls) \div 3, p \in 0 .. 1 :
                    n - 2 + p >= 1 =>
                        s.heap[Targets(n)[p + 1]].request
                            = IF Len(hist) - n <= 1 + p
                              THEN hist[n - 2 + p]
                              ELSE hist[n + 2 + p])
    /\ [][hist' # hist =>
            /\ \A i \in 1 .. 3 : s'.heap[s.vector[i]].request = s.heap[s.vector[i]].request
            /\ s'.heap[s.vector[4]].request = hist'[Len(hist')]]_vars

\* C26 witness: the fifth specifyGrain has overwritten, with another request,
\* the request that request[0] of the third OutputChunk and request[1] of the
\* second referred to, and the fourth had left it alone
C26_Witness ==
    /\ ~aborted
    /\ Len(hist) = 5
    /\ hist[1] # hist[5]
    /\ ~isnan(hist[1].position)
    /\ Targets(3)[1] = Targets(2)[2]
    /\ s.heap[Targets(3)[1]].request = hist[5]

\* ------------------------------------------------------------------------
\* Properties of single grains

\* specifyGrain has returned and nothing was called since
Specified == ~aborted /\ call = 0 /\ hist # <<>>

\* the request of the last specifyGrain that returned
Last == hist[Len(hist)]

\* pitch * sampleRates.input / sampleRates.output of the last request
LastRatio == Div(Mul(Last.pitch, Num(s.sampleRates.input)), Num(s.sampleRates.output))

\* c is x rounded to the nearest integer, halves away from zero
IsRounded(c, x) ==
    /\ ~Less(Frac(1, 2), fabs(Sub(Num(c), x)))
    /\ fabs(Sub(Num(c), x)) = Frac(1, 2) => Less(fabs(x), fabs(Num(c)))

\* chunk is [c - h, c + h) for c = round(position - start) and the h that goes
\* with the input ratio rho and the transform length
IsChunk(chunk, position, start, rho, transformLength) ==
    /\ (chunk.begin + chunk.end) % 2 = 0
    /\ IsRounded((chunk.begin + chunk.end) \div 2, Sub(position, start))
    /\ (chunk.end - chunk.begin) % 2 = 0
    /\ IF rho = Num(1)
       THEN (chunk.end - chunk.begin) \div 2 = transformLength \div 2
       ELSE IsRounded(((chunk.end - chunk.begin) \div 2) - 1,
                      Div(Num(transformLength \div 2), rho))

\* C6: specifyGrain with request.position = NaN returns the empty chunk,
\* begin = end = 0, whatever the rest of the request, the buffer start and the
\* previous grain.
C6_FlushChunkEmpty ==
    (Specified /\ isnan(Last.position)) => inputChunk = InputChunk(0, 0)

\* C6 witness: a flush request after a valid grain, with the input resampler
\* active and a buffer that does not start at 0
C6_Witness ==
    /\ Specified
    /\ Len(hist) = 2
    /\ ~isnan(hist[1].position)
    /\ isnan(Last.position)
    /\ bufferStart # Num(0)
    /\ At(s, 0).resampleOperations.input.function
    /\ At(s, 0).inputChunk # InputChunk(0, 0)

\* C7: for a valid request specifyGrain returns [c - h, c + h) with
\* c = round(position - bufferStartPosition); h is half the transform length
\* 2^(log2SynthesisHop+3) when the input ratio is 1, so that the chunk is 8
\* synthesis hops long, and round((transformLength/2) / rho) + 1 for an input
\* ratio rho other than 1.
C7_ChunkAroundCentre ==
    (Specified /\ ~isnan(Last.position)) =>
        /\ IsChunk(inputChunk, Last.position, bufferStart,
                   At(s, 0).resampleOperations.input.ratio,
                   Pow2(s.log2SynthesisHop + 3))
        /\ At(s, 0).resampleOperations.input.ratio = Num(1)
            => inputChunk.end - inputChunk.begin = 8 * Pow2(s.log2SynthesisHop)

\* C7 witness: a position half way between two frames, with an input ratio
\* of 3/2, for which neither the centre nor h is reached without rounding
C7_Witness ==
    /\ Specified
    /\ Last.position = Frac(-5, 2)
    /\ bufferStart = Num(0)
    /\ At(s, 0).resampleOperations.input.ratio = Frac(3, 2)
    /\ s.log2SynthesisHop = 2
    /\ inputChunk = InputChunk(-15, 9)

\* C8: the chunk specifyGrain returns for a valid request has no more than
\* maxInputFrameCount() frames.
C8_ChunkWithinMax ==
    (Specified /\ ~isnan(Last.position)) =>
        inputChunk.end - inputChunk.begin <= maxInputFrameCount(s)

\* Only the input resampler is active, with ratio 1/r.
OnlyInput(ops, r) ==
    /\ ops.input.function
    /\ ops.input.ratio = Recip(r)
    /\ ~ops.output.function
    /\ ops.output.ratio = Num(1)

\* Only the output resampler is active, with ratio r.
OnlyOutput(ops, r) ==
    /\ ops.output.function
    /\ ops.output.ratio = r
    /\ ~ops.input.function
    /\ ops.input.ratio = Num(1)

\* C10: with r = pitch * sampleRates.input / sampleRates.output other than 1,
\* forceIn and autoIn leave only the input resampler active, with ratio 1/r,
\* forceOut and autoOut only the output resampler, with ratio r, and autoInOut
\* the input side for r > 1 and the output side for r < 1.
C10_SideByMode ==
    (Specified /\ LastRatio # Num(1)) =>
        /\ Last.resampleMode \in {"forceIn", "autoIn"}
            => OnlyInput(At(s, 0).resampleOperations, LastRatio)
        /\ Last.resampleMode \in {"forceOut", "autoOut"}
            => OnlyOutput(At(s, 0).resampleOperations, LastRatio)
        /\ (Last.resampleMode = "autoInOut" /\ Less(Num(1), LastRatio))
            => OnlyInput(At(s, 0).resampleOperations, LastRatio)
        /\ (Last.resampleMode = "autoInOut" /\ Less(LastRatio, Num(1)))
            => OnlyOutput(At(s, 0).resampleOperations, LastRatio)

\* C10 witness: autoInOut has chosen the output side for a ratio of 1/3
C10_Witness ==
    /\ Specified
    /\ Last.resampleMode = "autoInOut"
    /\ LastRatio = Frac(1, 3)
    /\ At(s, 0).resampleOperations.output.function
    /\ At(s, 0).resampleOperations.output.ratio = Frac(1, 3)

\* C27: in every grain, whatever the resample mode and the ratio that
\* Operations::setup was given, at most one of the input and output resamplers
\* is active, and a side that is not active has ratio exactly 1.
C27_OneSideActive ==
    \A u \in GrainIds :
        With(s.heap[u].resampleOperations, LAMBDA ops :
            /\ ~(ops.input.function /\ ops.output.function)
            /\ ~ops.input.function => ops.input.ratio = Num(1)
            /\ ~ops.output.function => ops.output.ratio = Num(1))

\* C27 witness: setup, given a ratio other than 1, has left the output side
\* alone active in the grain at index 0, with the input ratio 1
C27_Witness ==
    /\ Specified
    /\ ~isnan(Last.position)
    /\ LastRatio # Num(1)
    /\ At(s, 0).resampleOperations.output.function
    /\ At(s, 0).resampleOperations.output.ratio = LastRatio
    /\ ~At(s, 0).resampleOperations.input.function

\* C11 as claimed: with r = pitch * sampleRates.input / sampleRates.output
\* equal to 1, every mode leaves both resamplers inactive.
C11_NeitherAtUnitRatio ==
    (Specified /\ LastRatio = Num(1)) =>
        /\ ~At(s, 0).resampleOperations.input.function
        /\ ~At(s, 0).resampleOperations.output.function

\* C11 amended: with r equal to 1, autoIn, autoOut and autoInOut leave both
\* resamplers inactive, forceIn keeps only the input resampler active and
\* forceOut only the output resampler, and both ratios are 1.
C11_ForcedAtUnitRatio ==
    (Specified /\ LastRatio = Num(1)) =>
        /\ At(s, 0).resampleOperations.input.function
            <=> Last.resampleMode = "forceIn"
        /\ At(s, 0).resampleOperations.output.function
            <=> Last.resampleMode = "forceOut"
        /\ At(s, 0).resampleOperations.input.ratio = Num(1)
        /\ At(s, 0).resampleOperations.output.ratio = Num(1)

\* C11 witness: forceIn at pitch 3/2 and sample rates 2:3, a ratio of 1, has
\* left the input resampler active
C11_Witness ==
    /\ Specified
    /\ Last.pitch = Frac(3, 2)
    /\ LastRatio = Num(1)
    /\ Last.resampleMode = "forceIn"
    /\ At(s, 0).resampleOperations.input.function

\* what Grain::specify derives from the request and the previous grain
Derived(grain) ==
    [requestHop |-> grain.requestHop,
     hop |-> grain.analysis.hop,
     hopIdeal |-> grain.analysis.hopIdeal,
     positionError |-> grain.analysis.positionError,
     speed |-> grain.analysis.speed,
     continuous |-> grain.continuous,
     passthrough |-> grain.passthrough]

\* C15: on the first specifyGrain of a fresh instance request.reset has no
\* effect: the call with the other value of reset returns the same InputChunk
\* and derives the same requestHop, analysis.hop, hopIdeal, positionError,
\* speed, continuous and passthrough.
C15_FirstResetIdle ==
    [][(calls = <<>> /\ calls' = <<names[1]>>) =>
          With(specifyGrain(s, level, [hist'[1] EXCEPT !.reset = ~@], bufferStart'),
               LAMBDA r :
                  /\ ~r.aborted
                  /\ r.chunk = inputChunk'
                  /\ Derived(At(r.s, 0)) = Derived(At(s', 0)))]_vars

\* the first specifyGrain, for a valid position off the frame grid, without reset
C15_Witness ==
    /\ calls = <<names[1]>>
    /\ ~hist[1].reset
    /\ hist[1].position = Frac(-5, 2)
    /\ ~At(s, 0).continuous
    /\ At(s, 0).analysis.positionError # Num(0)

\* ------------------------------------------------------------------------
\* Properties of two instances

\* both callers have made the same calls, and all of them returned
InStep == ~aborted /\ ~other.aborted /\ Len(calls) = Len(other.calls)

\* the requests that the two pointers of an OutputChunk of instance t refer to
Referenced(t, chunk) ==
    <<t.heap[chunk.request[1]].request, t.heap[chunk.request[2]].request>>

\* C12: two instances of one configuration whose callers have made the same
\* calls with the same arguments have returned the same InputChunk, refer to
\* equal requests in their OutputChunks and agree on isFlushed(), however
\* the calls on one were interleaved with the calls on the other.
C12_IdenticalResults ==
    InStep =>
        /\ inputChunk = other.inputChunk
        /\ isFlushed = flushed(other.s)
        /\ (calls # <<>> /\ Len(calls) % 3 = 0) =>
                Referenced(s, outputChunk) = Referenced(other.s, other.outputChunk)

\* The fields of a request that Grain::Grain or a specifyGrain has written.
Written(request) ==
    IF request.resampleMode = "indeterminate"
    THEN [position |-> request.position, speed |-> request.speed, pitch |-> request.pitch]
    ELSE request

\* C12, for what the code has written: as C12_IdenticalResults, the referenced
\* requests compared without the reset and resampleMode of a grain that no
\* specifyGrain has reached.
C12_IdenticalWritten ==
    InStep =>
        /\ inputChunk = other.inputChunk
        /\ isFlushed = flushed(other.s)
        /\ (calls # <<>> /\ Len(calls) % 3 = 0) =>
                \A i \in 1 .. 2 :
                    Written(Referenced(s, outputChunk)[i])
                        = Written(Referenced(other.s, other.outputChunk)[i])

\* ------------------------------------------------------------------------
\* Properties of the pitch

\* C13: specifyGrain returns no InputChunk for a request whose pitch is not
\* positive: no such request is among the requests of the calls that returned.
C13_NoChunkForBadPitch ==
    \A i \in 1 .. Len(hist) : Less(Num(0), hist[i].pitch)

\* C13, in builds with BUNGEE_SELF_TEST >= 1: as C13_NoChunkForBadPitch, and a
\* specifyGrain called in order with such a request has aborted.
C13_BadPitchAbortsInSelfTest ==
    level >= 1 =>
        /\ \A i \in 1 .. Len(hist) : Less(Num(0), hist[i].pitch)
        /\ (call = 0 /\ ~Less(Num(0), At(s, 0).request.pitch)) =>
                (aborted /\ logged = "assert")

\* ------------------------------------------------------------------------
\* Properties of timing

\* the grain i calls back (0: the current one) has been specified
Given(i) == ~aborted /\ i < Len(hist)

\* the hop of one grain at unit speed, in input frames, for the grain's request
UnitHop(grain) ==
    Mul(Num(Pow2(s.log2SynthesisHop)),
        setup(s.sampleRates, grain.request.pitch, grain.request.resampleMode).result)

\* request.position - previous.request.position of the current grain
Advance == Sub(At(s, 0).request.position, At(s, 1).request.position)

\* C17: requestHop is request.position - previous.request.position when both
\* positions are numbers and request.reset is false, whatever request.speed
\* is; in every other case it is request.speed * unitHop.
C17_RequestHop ==
    Given(0) =>
        IF /\ ~isnan(At(s, 0).request.position)
           /\ ~isnan(At(s, 1).request.position)
           /\ ~At(s, 0).request.reset
        THEN At(s, 0).requestHop = Advance
        ELSE At(s, 0).requestHop = Mul(At(s, 0).request.speed, UnitHop(At(s, 0)))

\* a grain that continues 3/2 frames on, where its speed asks for a hop more
\* than one frame longer
C17_Witness ==
    /\ Given(1)
    /\ ~At(s, 0).request.reset
    /\ At(s, 0).requestHop = Frac(3, 2)
    /\ Less(Num(1), fabs(Sub(Mul(At(s, 0).request.speed, UnitHop(At(s, 0))), Advance)))

\* the sum over the m latest grains of hop - hopIdeal
RECURSIVE Drift(_)
Drift(m) ==
    IF m = 0
    THEN Num(0)
    ELSE Add(Drift(m - 1),
             Sub(Num(At(s, m - 1).analysis.hop), At(s, m - 1).analysis.hopIdeal))

\* the m latest grains are a run of continuous grains
Run(m) == \A i \in 0 .. m - 1 : Given(i) /\ At(s, i).continuous

\* C18: a grain is continuous iff request.reset is false and the position of
\* the previous grain is a number. A continuous grain has hop = round(hopIdeal
\* - previous positionError) and positionError = previous positionError -
\* hopIdeal + hop, any other grain hop = round(hopIdeal) and positionError =
\* round(position) - position. A valid grain has |positionError| <= 1/2, and
\* over a run of continuous grains the hops differ from the ideal hops by at
\* most 1 in sum.
C18_Continuity ==
    /\ Given(0) =>
          /\ At(s, 0).continuous
                = (~At(s, 0).request.reset /\ ~isnan(At(s, 1).request.position))
          /\ IF At(s, 0).continuous
             THEN /\ At(s, 0).analysis.hop
                       = RoundInt(Sub(At(s, 0).analysis.hopIdeal,
                                      At(s, 1).analysis.positionError))
                  /\ At(s, 0).analysis.positionError
                       = Add(Sub(At(s, 1).analysis.positionError,
                                 At(s, 0).analysis.hopIdeal),
                             Num(At(s, 0).analysis.hop))
             ELSE /\ At(s, 0).analysis.hop = RoundInt(At(s, 0).analysis.hopIdeal)
                  /\ At(s, 0).analysis.positionError
                       = Sub(round(At(s, 0).request.position), At(s, 0).request.position)
          /\ ~isnan(At(s, 0).request.position) =>
                ~Less(Frac(1, 2), fabs(At(s, 0).analysis.positionError))
    /\ \A m \in 1 .. 3 : Run(m) => ~Less(Num(1), fabs(Drift(m)))

\* two continuous grains in a row off the frame grid: the error that the
\* earlier one leaves changes the hop of the later one
C18_Witness ==
    /\ Run(2)
    /\ At(s, 0).analysis.hopIdeal # Num(At(s, 0).analysis.hop)
    /\ At(s, 1).analysis.hopIdeal # Num(At(s, 1).analysis.hop)
    /\ At(s, 1).analysis.positionError # Num(0)
    /\ At(s, 0).analysis.hop # RoundInt(At(s, 0).analysis.hopIdeal)

\* C19 as claimed: passthrough is nonzero iff |analysis.speed| = 1 and the
\* passthrough of the previous grain is nonzero.
C19_ArmedAfterArmed ==
    Given(0) =>
        (At(s, 0).passthrough # 0
            <=> /\ fabs(At(s, 0).analysis.speed) = Num(1)
                /\ At(s, 1).passthrough # 0)

\* C19: passthrough is nonzero iff |analysis.speed| = 1 and, for a continuous
\* grain, the passthrough of the previous grain is that same speed; a grain
\* that is not continuous is armed by its speed alone.
C19_ArmedBySpeed ==
    Given(0) =>
        (At(s, 0).passthrough # 0
            <=> /\ fabs(At(s, 0).analysis.speed) = Num(1)
                /\ At(s, 0).continuous =>
                       At(s, 1).passthrough = TruncInt(At(s, 0).analysis.speed))

\* a continuous grain that stays armed after an armed grain
C19_Witness ==
    /\ Given(1)
    /\ At(s, 0).continuous
    /\ At(s, 0).passthrough # 0
    /\ At(s, 1).passthrough = At(s, 0).passthrough

\* C20: a continuous grain after a grain with passthrough 0 has passthrough 0,
\* so within a run of continuous grains passthrough stays 0 once it is 0, also
\* at |analysis.speed| = 1, and only a grain that is not continuous takes it
\* from 0 to nonzero. A nonzero passthrough is 1 or -1 and is analysis.speed.
C20_PassthroughStaysOff ==
    Given(0) =>
        /\ \A m \in 1 .. 3 :
              Run(m) => \A j \in 1 .. m :
                          At(s, j).passthrough = 0 => At(s, 0).passthrough = 0
        /\ At(s, 1).passthrough = 0 /\ At(s, 0).passthrough # 0 => ~At(s, 0).continuous
        /\ At(s, 0).passthrough # 0 =>
              /\ At(s, 0).passthrough \in {1, -1}
              /\ At(s, 0).analysis.speed = Num(At(s, 0).passthrough)

\* the second grain of a run keeps passthrough 0 at unit speed backwards
C20_Witness ==
    /\ Run(2)
    /\ At(s, 1).passthrough = 0
    /\ fabs(At(s, 0).analysis.speed) = Num(1)
    /\ At(s, 0).passthrough = 0

\* ------------------------------------------------------------------------
\* Properties of muting

\* the mute counts cover the chunk of the grain that analyseGrain is called for
Covering(a) ==
    \/ a.data = 0
    \/ a.head + a.tail >= At(s, 0).inputChunk.end - At(s, 0).inputChunk.begin

\* C16: analyseGrain with muteHead + muteTail >= inputChunk.end -
\* inputChunk.begin, or with data == nullptr, returns and has read none of the
\* caller's frames.
C16_CoveredGrainSilent ==
    [][\A a \in MuteAudio, overlap \in {"abort", "continue"} :
          (/\ s.expected = 1
           /\ valid(At(s, 0))
           /\ Covering(a)
           /\ AnalyseGrain(a.data, a.head, a.tail, overlap)) =>
              ~aborted' /\ ~dataRead']_vars

\* the same for mute counts that do not overlap: head + tail is the length of
\* the chunk, or data is null
C16_ExactlyCoveredGrainSilent ==
    [][\A a \in MuteAudio, overlap \in {"abort", "continue"} :
          (/\ s.expected = 1
           /\ valid(At(s, 0))
           /\ Covering(a)
           /\ a.data = 0 \/ a.head + a.tail
                                = At(s, 0).inputChunk.end - At(s, 0).inputChunk.begin
           /\ AnalyseGrain(a.data, a.head, a.tail, overlap)) =>
              ~aborted' /\ ~dataRead']_vars

\* the mute counts of a are within the chunk once inputChunkMap has clamped them
Clamped(a) ==
    With(inputChunkMap(At(s, 0), a.data, a.head, a.tail), LAMBDA m :
        /\ 0 <= m.head /\ m.head <= m.rows
        /\ 0 <= m.tail /\ m.tail <= m.rows)

\* the External that Grain::resampleInput builds from the clamped counts of a,
\* when the input resampler is active, passes External::check
Checked(a) ==
    With(inputChunkMap(At(s, 0), a.data, a.head, a.tail), LAMBDA m :
        At(s, 0).resampleOperations.input.function =>
            /\ 0 <= m.head
            /\ m.head <= m.rows - m.tail
            /\ m.rows - m.tail <= m.rows)

\* C22: whatever mute counts analyseGrain is given, each is within [0,
\* chunkFrames] after the clamping of inputChunkMap, and the External built
\* from the chunk with them has 0 <= unmutedBegin <= unmutedEnd <=
\* activeFrameCount <= rows.
C22_ClampedCountsChecked ==
    [][\A a \in MuteAudio, overlap \in {"abort", "continue"} :
          (/\ s.expected = 1
           /\ valid(At(s, 0))
           /\ AnalyseGrain(a.data, a.head, a.tail, overlap)) =>
              Clamped(a) /\ Checked(a)]_vars

\* the first half of C22 alone: each count is within [0, chunkFrames] after
\* the clamping
C22_CountsClamped ==
    [][\A a \in MuteAudio, overlap \in {"abort", "continue"} :
          (/\ s.expected = 1
           /\ valid(At(s, 0))
           /\ AnalyseGrain(a.data, a.head, a.tail, overlap)) =>
              Clamped(a)]_vars

\* ------------------------------------------------------------------------
\* Properties of the stream

\* C14: every call of Stream::process that returns has rendered floor or ceil
\* of its outputFrameCount; between calls framesNeeded is within half a frame,
\* and the frames rendered by all calls differ from the frames requested by at
\* most half a frame.
C14_DitheredFrameCount ==
    /\ stream.count > 0 =>
           \/ stream.returned[1] = FloorInt(stream.returned[2])
           \/ stream.returned[1] = CeilInt(stream.returned[2])
    /\ ~stream.processing =>
           /\ ~Less(Frac(1, 2), fabs(stream.framesNeeded))
           /\ ~Less(Frac(1, 2), fabs(Sub(stream.requested, Num(stream.rendered))))

\* a call asking for 3/2 frames has rendered one, after an earlier call
C14_Witness ==
    /\ ~aborted
    /\ stream.count >= 2
    /\ stream.returned = <<1, Frac(3, 2)>>
    /\ stream.rendered >= 2

\* ------------------------------------------------------------------------
\* Properties of the resampler

\* C23: a call of resample with alignEnd = true and activeFrameCount > 0 ends
\* on the segment boundary: internal.offset is 0 after the activeFrameCount
\* rows, and the call does not find that it landed badly.
C23_AlignedEnd ==
    (/\ resampler.count > 0
     /\ resampler.alignEnd
     /\ resampler.external.activeFrameCount > 0) =>
        /\ resampler.residual = Num(0)
        /\ ~resampler.landedBadly
        /\ resampler.internal.offset = Num(0)

\* a second call with alignEnd, on an Internal that the call before, without
\* alignEnd, left off the boundary
C23_Witness ==
    /\ resampler.count = 2
    /\ resampler.alignEnd
    /\ resampler.external.activeFrameCount > 2
    /\ resampler.residual = Num(0)
    /\ ~aborted

\* the rows within the active frames of the last call that are outside
\* [unmutedBegin, unmutedEnd)
MutedRows ==
    {row \in 0 .. resampler.external.activeFrameCount - 1 :
        row < resampler.external.unmutedBegin \/ row >= resampler.external.unmutedEnd}

\* C24: after a call in input mode no row outside [unmutedBegin, unmutedEnd)
\* has contributed to the internal buffer; after a call in output mode every
\* such row within the active frames has been written with zero.
C24_MutedRows ==
    (resampler.count > 0 /\ resampler.external.activeFrameCount > 0) =>
        IF resampler.mode = "Input"
        THEN resampler.internal.contributors \cap MutedRows = {}
        ELSE \A row \in MutedRows : resampler.external.ref[row] = "zero"

\* the input half of C24 alone, and for output mode that the rows outside
\* [unmutedBegin, unmutedEnd) are not written at all
C24_MutedRowsSkipped ==
    (resampler.count > 0 /\ resampler.external.activeFrameCount > 0) =>
        IF resampler.mode = "Input"
        THEN resampler.internal.contributors
                = (0 .. resampler.external.activeFrameCount - 1) \ MutedRows
        ELSE \A row \in 0 .. resampler.external.activeFrameCount - 1 :
                resampler.external.ref[row]
                    = IF row \in MutedRows THEN "kept" ELSE "interpolated"

\* ------------------------------------------------------------------------
\* Properties of the stream's calls of its stretcher

\* The calls of one pass of the loop of Stream::process are made in the order
\* that Instrumentation::Call expects: analyseGrain and synthesiseGrain when
\* request.position is a number, then specifyGrain.
InOrder(frameCount, overlap) ==
    With(analysing(World, overlap), LAMBDA analysed :
    With(synthesising(analysed, frameCount), LAMBDA synthesised :
        /\ isnan(stream.request.position) \/ ~Call(s, 1).abort
        /\ isnan(stream.request.position) \/ analysed.aborted
                \/ ~Call(analysed.s, 2).abort
        /\ synthesised.aborted \/ ~Call(synthesised.s, 0).abort))

\* C25: whatever the sequence of Stream::process calls, every pass of its
\* loop calls the stretcher in the order specifyGrain, analyseGrain,
\* synthesiseGrain, so that the call-order guard never aborts.
C25_StreamCallsInOrder ==
    [][\A frameCount \in ChunkFrameCounts, overlap \in {"abort", "continue"} :
           ProcessGrain(frameCount, overlap, MaxGrainsStream)
               => InOrder(frameCount, overlap)]_vars

\* the same while round(outputFrameCount) is not zero, that is while the
\* position that Stream::process computes is a number
C25_StreamCallsInOrderFromHalf ==
    [][\A frameCount \in ChunkFrameCounts, overlap \in {"abort", "continue"} :
           (/\ round(stream.outputFrameCount) # Num(0)
            /\ ~isnan(stream.request.position) \/ Len(hist) = 0
            /\ ProcessGrain(frameCount, overlap, MaxGrainsStream))
               => InOrder(frameCount, overlap)]_vars

====
